---- MODULE Spec2Model ----
(***************************************************************************)
(* Model of scripts/publish.py: the local publishing helper of the         *)
(* sqlalchemy-rds-iam package.  One run of the script is one traversal of  *)
(* main(); the dist directory is the only state that outlives a run.       *)
(***************************************************************************)
EXTENDS Integers, Sequences, FiniteSets, TLC

\* ------------------------------------------------------------------ bounds
\* Stale entries of the dist directory are named 1..MaxEntries; 0 is the
\* artifact the build tool writes.
MaxEntries == 1
\* External tools exit with a status in 0..MaxStatus.
MaxStatus == 3
\* Responses typed at the confirmation prompt have at most MaxLen characters
\* (plus the fixed samples of ExtraResponses).
MaxLen == 3

\* --------------------------------------------------------------- variables
VARIABLES
    action,     \* args.action, fixed for one run
    pc,         \* where control is
    todo,       \* the stage calls of the selected branch of main still to make
    dist,       \* the dist directory on the filesystem
    pending,    \* entries the glob of clean_dist has still to yield
    cmd,        \* run_command: the argument vector
    check,      \* run_command: the check flag
    proc,       \* the Popen object of the last spawned child, or NoProc
    result,     \* run_command: the CompletedProcess, or NoResult
    response,   \* publish_pypi: the text input() returned, or NoResponse
    exc,        \* the exception that is propagating, or NoExc
    out,        \* what the run has written to stdout and stderr, in order
    calls,      \* the commands the run has spawned, in order
    exitcode    \* the exit status of the process, -1 while it runs

vars == <<action, pc, todo, dist, pending, cmd, check, proc, result,
          response, exc, out, calls, exitcode>>

\* ----------------------------------------------------------------- actions
\* The choices of the positional argument (lines 67-71).
Actions == {"clean", "build", "check", "test", "publish", "all"}

\* The branches of main with the validation of "all" put before its build.
StagesOfCheckFirst(a) ==
    CASE a = "clean"   -> <<"clean_dist">>
      [] a = "build"   -> <<"build_package">>
      [] a = "check"   -> <<"check_package">>
      [] a = "test"    -> <<"publish_test">>
      [] a = "publish" -> <<"publish_pypi">>
      [] a = "all"     -> <<"clean_dist", "check_package", "build_package">>

\* The stage calls main makes for each action, in order (lines 76-89).
StagesOf(a) ==
    CASE a = "clean"   -> <<"clean_dist">>
      [] a = "build"   -> <<"build_package">>
      [] a = "check"   -> <<"check_package">>
      [] a = "test"    -> <<"publish_test">>
      [] a = "publish" -> <<"publish_pypi">>
      [] a = "all"     -> <<"clean_dist", "build_package", "check_package">>

\* ---------------------------------------------------------------- commands
BuildCmd == <<"python", "-m", "build">>
CheckCmd == <<"twine", "check", "dist/*">>
TestCmd  == <<"twine", "upload", "--repository", "testpypi", "dist/*">>
PypiCmd  == <<"twine", "upload", "dist/*">>
NoCmd    == <<>>
Commands == {BuildCmd, CheckCmd, TestCmd, PypiCmd}

\* ' '.join(cmd)  (line 16)
RECURSIVE Join(_)
Join(c) ==
    IF c = <<>> THEN ""
    ELSE IF Len(c) = 1 THEN c[1]
    ELSE c[1] \o " " \o Join(Tail(c))

\* ------------------------------------------------------------------ output
Line(fd, text, arg) == [fd |-> fd, text |-> text, arg |-> arg]

SuccessMarker == Line("stdout", "(check mark) Action completed successfully!", "")
FailureMarker(s) == Line("stdout", "(cross mark) Command failed with exit code", ToString(s))
CancelMarker == Line("stdout", "(cross mark) Cancelled by user", "")
CancelledNotice == Line("stdout", "Cancelled.", "")
Prompt == Line("stdout", "Are you sure you want to publish to PyPI? (yes/no): ", "")
Traceback(type) == Line("stderr", "Traceback (most recent call last)", type)
AllSummary ==
    << Line("stdout", "Package built and checked successfully!", ""),
       Line("stdout", "Run 'python scripts/publish.py test' to publish to Test PyPI", ""),
       Line("stdout", "Run 'python scripts/publish.py publish' to publish to PyPI", "") >>

\* -------------------------------------------------------------- exceptions
NoExc == [type |-> "none", returncode |-> 0]
CalledProcessError(s) == [type |-> "CalledProcessError", returncode |-> s]
KeyboardInterrupt == [type |-> "KeyboardInterrupt", returncode |-> 0]
OSError == [type |-> "OSError", returncode |-> 0]
EOFError == [type |-> "EOFError", returncode |-> 0]

\* ---------------------------------------------------------- dist directory
Names == 0..MaxEntries
Artifact == <<0, "file">>
\* "file" can be unlinked; unlink of a "dir" (a subdirectory) or of a
\* "denied" entry (no permission) raises OSError.
EntryKinds == {"file", "dir", "denied"}
Absent == [kind |-> "absent", entries |-> {}]
DistFile == [kind |-> "file", entries |-> {}]
DistDir(es) == [kind |-> "dir", entries |-> es]
DistStates ==
    {Absent, DistFile} \cup
    { DistDir(es) : es \in { s \in SUBSET (Names \X EntryKinds) :
                              \A e1, e2 \in s : e1[1] = e2[1] => e1 = e2 } }

\* ------------------------------------------------------------- tool output
Texts == {"", "text"}
Statuses == 0..MaxStatus
\* The Popen object of subprocess.run: returncode is -1 (None in Python) while
\* the child runs, and its exit status once it has exited.
NoProc == [args |-> <<>>, stdout |-> "", stderr |-> "", returncode |-> -1]
Popen(c) == [args |-> c, stdout |-> "", stderr |-> "", returncode |-> -1]
NoResult == [stdout |-> "", stderr |-> "", returncode |-> -1]
CompletedProcess(so, se, s) == [stdout |-> so, stderr |-> se, returncode |-> s]

\* --------------------------------------------------------------- responses
Alphabet == {"y", "Y", "e", "E", "s", "S", "n", "o"}
NoResponse == <<"<none>">>
YesPlease == <<"Y", "e", "s", " ", "p", "l", "e", "a", "s", "e">>
ExtraResponses == {YesPlease, <<"y", "e", "s", " ">>, <<" ", "y", "e", "s">>}
Responses == UNION { [1..n -> Alphabet] : n \in 0..MaxLen } \cup ExtraResponses

\* A lower() that leaves the letters as they are.
LowerNone(r) == r

\* str.lower() on one character, and on a string (line 57)
LowerChar(c) ==
    CASE c = "Y" -> "y"
      [] c = "E" -> "e"
      [] c = "S" -> "s"
      [] OTHER -> c
Lower(r) == [i \in DOMAIN r |-> LowerChar(r[i])]
Yes == <<"y", "e", "s">>

\* A gate that denies on "no" only, in place of allowing on "yes" only.
GateDeniesOnNo(r) == Lower(r) # <<"n", "o">>

\* The gate of publish_pypi (line 57): the upload goes ahead iff this holds.
GateAllows(r) == Lower(r) = Yes

\* ------------------------------------------------------- the external tools
\* What the build tool leaves in dist: the artifact, next to whatever was there.
Populated(d) == DistDir({e \in d.entries : e[1] # 0} \cup {Artifact})

\* The dist directory after command c has exited with status s.  Only the
\* build tool writes to it (line 38); it cannot succeed when dist is a file.
ToolEffect(c, s, d) ==
    IF c # BuildCmd THEN {d}
    ELSE IF d.kind = "file" THEN (IF s = 0 THEN {} ELSE {d})
    ELSE IF s = 0 THEN {Populated(d)}
    ELSE {d, Populated(d)}

\* The dist directory after command c was killed while running.
PartialEffect(c, d) ==
    IF c = BuildCmd /\ d.kind # "file" THEN {d, Populated(d)} ELSE {d}

\* -------------------------------------------------------------------- Init
Fresh ==
    /\ pending = {}
    /\ cmd = NoCmd
    /\ check = TRUE
    /\ proc = NoProc
    /\ result = NoResult
    /\ response = NoResponse
    /\ exc = NoExc
    /\ out = <<>>
    /\ calls = <<>>
    /\ exitcode = -1

\* The script is started with a valid action (lines 64-75) on any dist.
Init ==
    /\ action \in Actions
    /\ todo = StagesOf(action)
    /\ pc = "main"
    /\ dist \in DistStates
    /\ Fresh

Raise(e) ==
    /\ exc' = e
    /\ pc' = "except"

\* -------------------------------------------------------------------- main
\* main calls the next stage of the selected branch (lines 76-89).
Dispatch ==
    /\ pc = "main"
    /\ todo # <<>>
    /\ pc' = Head(todo)
    /\ todo' = Tail(todo)
    /\ UNCHANGED <<action, dist, pending, cmd, check, proc, result, response,
                   exc, out, calls, exitcode>>

\* Every stage returned: the summary of "all", the success line, exit 0
\* (lines 90-94).
Finish ==
    /\ pc = "main"
    /\ todo = <<>>
    /\ out' = out \o (IF action = "all" THEN AllSummary ELSE <<>>)
                  \o <<SuccessMarker>>
    /\ exitcode' = 0
    /\ pc' = "exit"
    /\ UNCHANGED <<action, todo, dist, pending, cmd, check, proc, result,
                   response, exc, calls>>

\* A handler that runs the failed command once more before giving up.
HandleCalledProcessErrorRetry ==
    /\ pc = "except"
    /\ exc.type = "CalledProcessError"
    /\ IF Len(calls) < 2
       THEN /\ pc' = "run_command"
            /\ exc' = NoExc
            /\ UNCHANGED <<out, exitcode>>
       ELSE /\ out' = Append(out, FailureMarker(exc.returncode))
            /\ exitcode' = 1
            /\ pc' = "exit"
            /\ exc' = exc
    /\ UNCHANGED <<action, todo, dist, pending, cmd, check, proc, result,
                   response, calls>>

\* except subprocess.CalledProcessError (lines 96-98)
HandleCalledProcessError ==
    /\ pc = "except"
    /\ exc.type = "CalledProcessError"
    /\ out' = Append(out, FailureMarker(exc.returncode))
    /\ exitcode' = 1
    /\ pc' = "exit"
    /\ UNCHANGED <<action, todo, dist, pending, cmd, check, proc, result,
                   response, exc, calls>>

\* An interruption handler that reports the interruption as a failed command.
HandleKeyboardInterruptAsFailure ==
    /\ pc = "except"
    /\ exc.type = "KeyboardInterrupt"
    /\ out' = Append(out, FailureMarker(1))
    /\ exitcode' = 1
    /\ pc' = "exit"
    /\ UNCHANGED <<action, todo, dist, pending, cmd, check, proc, result,
                   response, exc, calls>>

\* An interruption handler that exits with the status of a killed process.
HandleKeyboardInterruptAs130 ==
    /\ pc = "except"
    /\ exc.type = "KeyboardInterrupt"
    /\ out' = Append(out, CancelMarker)
    /\ exitcode' = 130
    /\ pc' = "exit"
    /\ UNCHANGED <<action, todo, dist, pending, cmd, check, proc, result,
                   response, exc, calls>>

\* except KeyboardInterrupt (lines 99-101)
HandleKeyboardInterrupt ==
    /\ pc = "except"
    /\ exc.type = "KeyboardInterrupt"
    /\ out' = Append(out, CancelMarker)
    /\ exitcode' = 1
    /\ pc' = "exit"
    /\ UNCHANGED <<action, todo, dist, pending, cmd, check, proc, result,
                   response, exc, calls>>

\* Any other exception leaves main (line 105): the interpreter prints the
\* traceback on stderr and exits with status 1.
Uncaught ==
    /\ pc = "except"
    /\ exc.type \notin {"CalledProcessError", "KeyboardInterrupt"}
    /\ out' = Append(out, Traceback(exc.type))
    /\ exitcode' = 1
    /\ pc' = "exit"
    /\ UNCHANGED <<action, todo, dist, pending, cmd, check, proc, result,
                   response, exc, calls>>

\* -------------------------------------------------------------- clean_dist
\* clean_dist without its exists() test.
CleanBeginNoExists ==
    /\ pc = "clean_dist"
    /\ out' = Append(out, Line("stdout", "Cleaning dist directory...", ""))
    /\ pending' = dist.entries
    /\ pc' = "clean_loop"
    /\ UNCHANGED <<action, todo, dist, cmd, check, proc, result, response,
                   exc, calls, exitcode>>

\* lines 27-29; glob("*") lists the entries (none when dist is a file).
CleanBegin ==
    /\ pc = "clean_dist"
    /\ out' = Append(out, Line("stdout", "Cleaning dist directory...", ""))
    /\ IF dist.kind # "absent"
       THEN pending' = dist.entries /\ pc' = "clean_loop"
       ELSE pending' = pending /\ pc' = "main"
    /\ UNCHANGED <<action, todo, dist, cmd, check, proc, result, response,
                   exc, calls, exitcode>>

\* A loop over the entries that unlinks none of them.
CleanUnlinkKeep ==
    /\ pc = "clean_loop"
    /\ \E e \in pending : pending' = pending \ {e}
    /\ UNCHANGED <<action, pc, todo, dist, cmd, check, proc, result, response,
                   exc, out, calls, exitcode>>

\* file.unlink() on the next entry (lines 30-31)
CleanUnlink ==
    /\ pc = "clean_loop"
    /\ \E e \in pending :
         IF e[2] = "file"
         THEN /\ dist' = DistDir(dist.entries \ {e})
              /\ pending' = pending \ {e}
              /\ UNCHANGED <<pc, exc>>
         ELSE /\ Raise(OSError)
              /\ UNCHANGED <<dist, pending>>
    /\ UNCHANGED <<action, todo, cmd, check, proc, result, response, out,
                   calls, exitcode>>

\* An rmdir that is tried again and again until it succeeds.
CleanRmdirRetry ==
    /\ pc = "clean_loop"
    /\ pending = {}
    /\ IF dist.kind = "dir" /\ dist.entries = {}
       THEN dist' = Absent /\ pc' = "main"
       ELSE dist' = dist /\ pc' = pc
    /\ UNCHANGED <<action, todo, pending, cmd, check, proc, result, response,
                   exc, out, calls, exitcode>>

\* An rmdir whose failure is ignored.
CleanRmdirIgnore ==
    /\ pc = "clean_loop"
    /\ pending = {}
    /\ IF dist.kind = "dir" /\ dist.entries = {}
       THEN dist' = Absent
       ELSE dist' = dist
    /\ pc' = "main"
    /\ UNCHANGED <<action, todo, pending, cmd, check, proc, result, response,
                   exc, out, calls, exitcode>>

\* dist_dir.rmdir() (line 32)
CleanRmdir ==
    /\ pc = "clean_loop"
    /\ pending = {}
    /\ IF dist.kind = "dir" /\ dist.entries = {}
       THEN dist' = Absent /\ pc' = "main" /\ exc' = exc
       ELSE Raise(OSError) /\ dist' = dist
    /\ UNCHANGED <<action, todo, pending, cmd, check, proc, result, response,
                   out, calls, exitcode>>

\* ------------------------------------------------- the run_command callers
Call(text, c) ==
    /\ out' = Append(out, Line("stdout", text, ""))
    /\ cmd' = c
    /\ check' = TRUE
    /\ pc' = "run_command"
    /\ UNCHANGED <<action, todo, dist, pending, proc, result, response, exc,
                   calls, exitcode>>

\* build_package (lines 37-38)
BuildBegin == pc = "build_package" /\ Call("Building package...", BuildCmd)

\* check_package (lines 43-44)
CheckBegin == pc = "check_package" /\ Call("Checking package...", CheckCmd)

\* publish_test without its --repository testpypi arguments.
TestBeginToPypi ==
    pc = "publish_test" /\ Call("Publishing to Test PyPI...", PypiCmd)

\* publish_test (lines 49-50)
TestBegin == pc = "publish_test" /\ Call("Publishing to Test PyPI...", TestCmd)

\* ------------------------------------------------------------ publish_pypi
\* lines 55-56: the banner, then input() writes the prompt and blocks.
PublishBegin ==
    /\ pc = "publish_pypi"
    /\ out' = out \o <<Line("stdout", "Publishing to PyPI...", ""), Prompt>>
    /\ pc' = "input"
    /\ UNCHANGED <<action, todo, dist, pending, cmd, check, proc, result,
                   response, exc, calls, exitcode>>

\* A denial that ends the run as a failed command.
DenyAsFailure ==
    /\ out' = Append(out, CancelledNotice)
    /\ Raise(CalledProcessError(1))
    /\ UNCHANGED <<cmd, check>>

\* The gate denies: "Cancelled." and a plain return (lines 58-59).
Deny ==
    /\ out' = Append(out, CancelledNotice)
    /\ pc' = "main"
    /\ UNCHANGED <<cmd, check, exc>>

\* The gate allows: run_command(["twine", "upload", "dist/*"]) (line 61).
Allow ==
    /\ cmd' = PypiCmd
    /\ check' = TRUE
    /\ pc' = "run_command"
    /\ UNCHANGED <<out, exc>>

\* input() returns a line; lines 56-61.
InputReturn ==
    /\ pc = "input"
    /\ \E r \in Responses :
         /\ response' = r
         /\ IF GateAllows(r) THEN Allow ELSE Deny
    /\ UNCHANGED <<action, todo, dist, pending, proc, result, calls,
                   exitcode>>

\* input() meets the end of its input and raises EOFError (line 56).
InputEOF ==
    /\ pc = "input"
    /\ Raise(EOFError)
    /\ UNCHANGED <<action, todo, dist, pending, cmd, check, proc, result,
                   response, out, calls, exitcode>>

\* ------------------------------------------------------------- run_command
\* line 16
RunPrint ==
    /\ pc = "run_command"
    /\ out' = Append(out, Line("stdout", "Running:", Join(cmd)))
    /\ pc' = "spawn"
    /\ UNCHANGED <<action, todo, dist, pending, cmd, check, proc, result,
                   response, exc, calls, exitcode>>

\* A spawn that does not wait for the child (Popen in place of run).
SpawnDetached ==
    /\ pc = "spawn"
    /\ proc' = Popen(cmd)
    /\ calls' = Append(calls, cmd)
    /\ pc' = "main"
    /\ UNCHANGED <<action, todo, dist, pending, cmd, check, result, response,
                   exc, out, exitcode>>

\* subprocess.run starts the child (line 17), or fails to when the program
\* is not installed (FileNotFoundError, an OSError).
Spawn ==
    /\ pc = "spawn"
    /\ \/ /\ proc' = Popen(cmd)
          /\ calls' = Append(calls, cmd)
          /\ pc' = "wait"
          /\ exc' = exc
       \/ /\ Raise(OSError)
          /\ UNCHANGED <<proc, calls>>
    /\ UNCHANGED <<action, todo, dist, pending, cmd, check, result, response,
                   out, exitcode>>

\* The child exits; subprocess.run has captured its output (line 17).
ChildExit ==
    /\ pc = "wait"
    /\ \E s \in Statuses, so \in Texts, se \in Texts :
         /\ \E d \in ToolEffect(cmd, s, dist) : dist' = d
         /\ proc' = [proc EXCEPT !.stdout = so, !.stderr = se, !.returncode = s]
    /\ pc' = "check"
    /\ UNCHANGED <<action, todo, pending, cmd, check, result, response, exc,
                   out, calls, exitcode>>

\* subprocess.run that returns the CompletedProcess whatever the status.
RunCheckNever ==
    /\ pc = "check"
    /\ result' = CompletedProcess(proc.stdout, proc.stderr, proc.returncode)
    /\ pc' = "report"
    /\ UNCHANGED <<action, todo, dist, pending, cmd, check, proc, response,
                   exc, out, calls, exitcode>>

\* subprocess.run that raises on a non-zero status whatever the check flag.
RunCheckAlways ==
    /\ pc = "check"
    /\ IF proc.returncode # 0
       THEN Raise(CalledProcessError(proc.returncode)) /\ result' = result
       ELSE /\ result' = CompletedProcess(proc.stdout, proc.stderr,
                                          proc.returncode)
            /\ pc' = "report"
            /\ exc' = exc
    /\ UNCHANGED <<action, todo, dist, pending, cmd, check, proc, response,
                   out, calls, exitcode>>

\* subprocess.run(check=check) raises on a non-zero status, else returns the
\* CompletedProcess, which line 17 assigns to result.
RunCheck ==
    /\ pc = "check"
    /\ IF check /\ proc.returncode # 0
       THEN Raise(CalledProcessError(proc.returncode)) /\ result' = result
       ELSE /\ result' = CompletedProcess(proc.stdout, proc.stderr,
                                          proc.returncode)
            /\ pc' = "report"
            /\ exc' = exc
    /\ UNCHANGED <<action, todo, dist, pending, cmd, check, proc, response,
                   out, calls, exitcode>>

\* lines 18-22: pass the captured streams on, return to the caller.
RunOutput ==
    /\ pc = "report"
    /\ out' = out
         \o (IF result.stdout # "" THEN <<Line("stdout", result.stdout, "")>>
             ELSE <<>>)
         \o (IF result.stderr # "" THEN <<Line("stderr", result.stderr, "")>>
             ELSE <<>>)
    /\ pc' = "main"
    /\ UNCHANGED <<action, todo, dist, pending, cmd, check, proc, result,
                   response, exc, calls, exitcode>>

\* ------------------------------------------------------------ interruption
\* The positions inside the try block of main (lines 75-94).
TryPcs == {"main", "clean_dist", "clean_loop", "build_package",
           "check_package", "publish_test", "publish_pypi", "input",
           "run_command", "spawn", "wait", "check", "report"}

\* The operator interrupts the run: KeyboardInterrupt is raised where control
\* is; subprocess.run kills a child that is still running (line 17).
Interrupt ==
    /\ pc \in TryPcs
    /\ Raise(KeyboardInterrupt)
    /\ IF pc = "wait"
       THEN /\ proc' = NoProc
            /\ \E d \in PartialEffect(cmd, dist) : dist' = d
       ELSE UNCHANGED <<proc, dist>>
    /\ UNCHANGED <<action, todo, pending, cmd, check, result, response, out,
                   calls, exitcode>>

\* ----------------------------------------------------------------- re-runs
\* The script is run again on the dist directory the last run left
\* (lines 104-105).
Restart ==
    /\ pc = "exit"
    /\ action' \in Actions
    /\ todo' = StagesOf(action')
    /\ pc' = "main"
    /\ dist' = dist
    /\ pending' = {}
    /\ cmd' = NoCmd
    /\ check' = TRUE
    /\ proc' = NoProc
    /\ result' = NoResult
    /\ response' = NoResponse
    /\ exc' = NoExc
    /\ out' = <<>>
    /\ calls' = <<>>
    /\ exitcode' = -1

Next ==
    \/ Dispatch
    \/ Finish
    \/ HandleCalledProcessError
    \/ HandleKeyboardInterrupt
    \/ Uncaught
    \/ CleanBegin
    \/ CleanUnlink
    \/ CleanRmdir
    \/ BuildBegin
    \/ CheckBegin
    \/ TestBegin
    \/ PublishBegin
    \/ InputReturn
    \/ InputEOF
    \/ RunPrint
    \/ Spawn
    \/ ChildExit
    \/ RunCheck
    \/ RunOutput
    \/ Interrupt
    \/ Restart

Spec == Init /\ [][Next]_vars

\* ------------------------------------------ run_command called on its own
\* run_command(cmd, check) called directly with either value of check.
InitRun ==
    /\ action = "none"
    /\ todo = <<>>
    /\ pc = "run_command"
    /\ dist \in DistStates
    /\ pending = {}
    /\ cmd \in Commands
    /\ check \in BOOLEAN
    /\ proc = NoProc
    /\ result = NoResult
    /\ response = NoResponse
    /\ exc = NoExc
    /\ out = <<>>
    /\ calls = <<>>
    /\ exitcode = -1

NextRun ==
    \/ RunPrint
    \/ Spawn
    \/ ChildExit
    \/ RunCheck
    \/ RunOutput

SpecRun == InitRun /\ [][NextRun]_vars

\* ------------------------------------------------------------ observations
\* How many times the run has spawned command c.
Count(c) == Cardinality({i \in DOMAIN calls : calls[i] = c})

\* The run has written line l.
Printed(l) == \E i \in DOMAIN out : out[i] = l

\* The lines that mark a failed run: both start with the cross mark.
IsFailureMarker(l) ==
    l.text \in {FailureMarker(0).text, CancelMarker.text}

\* The banner each stage prints when it is entered.
Banner(stage) ==
    CASE stage = "clean_dist"    -> "Cleaning dist directory..."
      [] stage = "build_package" -> "Building package..."
      [] stage = "check_package" -> "Checking package..."
      [] stage = "publish_test"  -> "Publishing to Test PyPI..."
      [] stage = "publish_pypi"  -> "Publishing to PyPI..."
Banners == {Banner(st) : st \in {"clean_dist", "build_package", "check_package",
                                  "publish_test", "publish_pypi"}}

\* The stages the run has entered, in order, read off its output.
StageLog == SelectSeq([i \in DOMAIN out |-> out[i].text],
                      LAMBDA t : t \in Banners)

\* The banners of the stages action a is to run, in order.
Plan(a) == [i \in DOMAIN StagesOf(a) |-> Banner(StagesOf(a)[i])]

IsPrefix(p, q) == Len(p) <= Len(q) /\ SubSeq(q, 1, Len(p)) = p

\* The spellings of "yes" in any letter case.
YesSpellings ==
    { <<a, b, c>> : a \in {"y", "Y"}, b \in {"e", "E"}, c \in {"s", "S"} }

\* The run was interrupted by the operator.
Interrupted == exc.type = "KeyboardInterrupt"

\* ------------------------------------------------------------------ claims

\* C1: the production upload command is spawned only when the action is
\* publish and the response read at the prompt is "yes" in some letter case;
\* every other end of the read (other text, empty text, end of input,
\* interruption) leaves the run without a production upload.
C1_UploadOnlyAfterYes ==
    Count(PypiCmd) > 0 => (action = "publish" /\ response \in YesSpellings)

C1_Witness ==
    /\ Count(PypiCmd) = 1
    /\ response = <<"Y", "e", "S">>
    /\ pc = "exit"

\* C2: action publish with the gate denying spawns no command at all and,
\* unless the operator interrupts the run, ends with exit status 0 and an
\* output that holds the cancellation notice and no failure marker.
C2_DenialIsSuccess ==
    (/\ action = "publish"
     /\ response # NoResponse
     /\ response \notin YesSpellings)
    => /\ calls = <<>>
       /\ Printed(CancelledNotice)
       /\ (pc = "exit" /\ ~Interrupted)
            => /\ exitcode = 0
               /\ Printed(SuccessMarker)
               /\ \A i \in DOMAIN out : ~IsFailureMarker(out[i])

C2_Witness ==
    /\ action = "publish"
    /\ response = <<"n", "o">>
    /\ pc = "exit"
    /\ exitcode = 0
    /\ calls = <<>>

\* C3: action all enters Clean, then Build, then Check, in that order and
\* each at most once; it spawns the build tool before the validation tool and
\* nothing else, never prompts and never uploads; once a stage has failed, of
\* whatever kind the failure, no further stage is entered and no further
\* command is spawned in that run.
C3_AllInOrder ==
    action = "all" =>
       /\ IsPrefix(StageLog, Plan("all"))
       /\ IsPrefix(calls, <<BuildCmd, CheckCmd>>)
       /\ ~Printed(Prompt)
       /\ response = NoResponse
       /\ calls = <<>> \/ Len(calls) + 1 <= Len(StageLog)

C3_HaltsOnFailure ==
    (action = "all" /\ exc # NoExc /\ exc' # NoExc)
    => (StageLog' = StageLog /\ calls' = calls /\ todo' = todo)

C3_AllOrderedAndHalting == []C3_AllInOrder /\ [][C3_HaltsOnFailure]_vars

\* A build that failed with a non-zero status, the check stage never entered.
C3_Witness ==
    /\ action = "all"
    /\ pc = "exit"
    /\ exc = CalledProcessError(1)
    /\ calls = <<BuildCmd>>
    /\ StageLog = <<Banner("clean_dist"), Banner("build_package")>>
    /\ todo = <<"check_package">>

\* The command a stage spawns, if any.
CommandOf(a) ==
    CASE a = "build"   -> <<BuildCmd>>
      [] a = "check"   -> <<CheckCmd>>
      [] a = "test"    -> <<TestCmd>>
      [] a = "publish" -> <<PypiCmd>>
      [] OTHER         -> <<>>

\* C4: for an action other than all, only the stage of that action is
\* entered, and exactly that one in a run that ends without interruption;
\* only the command of that stage is spawned, at most once (none for clean);
\* the prompt is printed and a response read only by publish.
C4_OneStage ==
    action \in Actions \ {"all"} =>
       /\ IsPrefix(StageLog, Plan(action))
       /\ (pc = "exit" /\ ~Interrupted) => StageLog = Plan(action)
       /\ IsPrefix(calls, CommandOf(action))
       /\ (Printed(Prompt) \/ response # NoResponse) => action = "publish"

\* C4: the dist directory is changed by the script itself only in clean, and
\* otherwise only by the build tool while it runs.
C4_DistFrame ==
    (action \in Actions \ {"all"} /\ dist' # dist)
    => \/ action = "clean" /\ pc = "clean_loop"
       \/ action = "build" /\ pc = "wait"

C4_SingleStageIsolated == []C4_OneStage /\ [][C4_DistFrame]_vars

\* test has uploaded to the staging repository without any prompt.
C4_Witness ==
    /\ action = "test"
    /\ pc = "exit"
    /\ exitcode = 0
    /\ calls = <<TestCmd>>
    /\ ~Printed(Prompt)

\* C5: a run that has ended has exit status 0 or 1: 0 exactly when every
\* stage of the action was entered and none raised (a denied confirmation
\* included), and 1 when a stage raised, be it a failed command, a filesystem
\* error of clean, the end of input, or an interruption; while the script
\* runs it has no exit status.
C5_ExitCode ==
    /\ pc # "exit" => exitcode = -1
    /\ pc = "exit" =>
         /\ exitcode \in {0, 1}
         /\ exitcode = 0 <=> (exc = NoExc /\ StageLog = Plan(action))
         /\ exitcode = 1 <=> exc # NoExc

\* A filesystem error of clean ends the run with status 1.
C5_Witness ==
    /\ pc = "exit"
    /\ action = "clean"
    /\ exc = OSError
    /\ exitcode = 1

\* C6: when the child of a run has exited with a non-zero status s and the
\* run has ended without interruption, the exception that reached main is
\* CalledProcessError with s, the failure marker with s is printed and the
\* success marker is not, the failing command is the last one spawned, the
\* failing stage is the last one entered, and the exit status is not 0.
C6_ToolFailureReported ==
    (pc = "exit" /\ proc.returncode > 0 /\ ~Interrupted)
    => /\ exc = CalledProcessError(proc.returncode)
       /\ Printed(FailureMarker(proc.returncode))
       /\ ~Printed(SuccessMarker)
       /\ calls[Len(calls)] = proc.args
       /\ StageLog = SubSeq(Plan(action), 1, Len(StageLog))
       /\ Len(StageLog) = IF action = "all" THEN Len(calls) + 1 ELSE 1
       /\ exitcode # 0

C6_Witness ==
    /\ pc = "exit"
    /\ action = "check"
    /\ proc.returncode = 3
    /\ Printed(FailureMarker(3))
    /\ exitcode = 1

\* clean_dist has raised a filesystem error (no command is ever prepared
\* before or during clean).
CleanFailed == exc = OSError /\ cmd = NoCmd

\* C7: a filesystem error raised by the Clean stage is caught by main and
\* reported with a failure marker, and the run ends with a non-zero status.
C7_FilesystemErrorReported ==
    (pc = "exit" /\ CleanFailed)
    => /\ \E i \in DOMAIN out : IsFailureMarker(out[i])
       /\ exitcode # 0

\* C8: once the prompt has been answered, the gate has let the upload go
\* ahead (the upload command is prepared) exactly when the answer is a
\* spelling of "yes" in some letter case, and has printed the cancellation
\* notice exactly when it is not; "y", "Yes please", "" and "no" are denied.
C8_GateDecision ==
    response # NoResponse =>
       /\ response \in YesSpellings <=> cmd = PypiCmd
       /\ response \notin YesSpellings <=> Printed(CancelledNotice)
       /\ response \in {<<"y">>, YesPlease, <<>>, <<"n", "o">>}
            => (Printed(CancelledNotice) /\ cmd = NoCmd /\ calls = <<>>)

C8_Witness ==
    /\ response = <<"Y", "E", "S">>
    /\ pc = "run_command"
    /\ cmd = PypiCmd

\* C9 as stated: Clean never fails, whatever the dist directory holds.
C9_CleanNeverFails == ~CleanFailed

\* C9 amended: Clean fails only when dist is not a directory or holds an
\* entry that is not a deletable file;
C9_FailsOnlyOnUndeletable ==
    CleanFailed =>
       \/ dist.kind = "file"
       \/ dist.kind = "dir" /\ \E e \in dist.entries : e[2] # "file"

\* on an absent dist directory it returns at once, changing nothing;
C9_AbsentIsNoOp ==
    (pc = "clean_dist" /\ dist = Absent /\ exc'.type # "KeyboardInterrupt")
    => (pc' = "main" /\ dist' = Absent /\ exc' = NoExc)

\* and whenever it returns, the dist directory is absent, which is the state
\* the next Clean starts from.
C9_SuccessLeavesAbsent ==
    (pc \in {"clean_dist", "clean_loop"} /\ pc' = "main") => dist' = Absent

C9_CleanIdempotent ==
    /\ []C9_FailsOnlyOnUndeletable
    /\ [][C9_AbsentIsNoOp]_vars
    /\ [][C9_SuccessLeavesAbsent]_vars

\* A clean run has ended in success and left the dist directory absent.
C9_Witness ==
    /\ action = "clean"
    /\ pc = "exit"
    /\ exitcode = 0
    /\ dist = Absent
    /\ StageLog = <<Banner("clean_dist")>>

\* C10: after subprocess.run has dealt with a child that exited with status
\* s: with check true and s non-zero, CalledProcessError carrying s is raised
\* and no result is returned; otherwise (check false, or s zero) nothing is
\* raised and the result returned carries s and the captured streams.
C10_CheckFlag ==
    (proc.returncode >= 0 /\ pc \in {"report", "main", "except"})
    => IF check /\ proc.returncode # 0
       THEN /\ pc = "except"
            /\ exc = CalledProcessError(proc.returncode)
            /\ result = NoResult
       ELSE /\ pc # "except"
            /\ exc = NoExc
            /\ result = CompletedProcess(proc.stdout, proc.stderr,
                                         proc.returncode)

C10_Witness ==
    /\ ~check
    /\ pc = "main"
    /\ result.returncode = MaxStatus
    /\ exc = NoExc

\* C11: when a run has ended without interruption, the captured standard
\* output and standard error of its last child, when non-empty, have been
\* written to the run's streams, whatever the status the child exited with.
C11_OutputPassedThrough ==
    (pc = "exit" /\ proc.returncode >= 0 /\ ~Interrupted)
    => /\ proc.stdout # "" => Printed(Line("stdout", proc.stdout, ""))
       /\ proc.stderr # "" => Printed(Line("stderr", proc.stderr, ""))

\* A child is running: spawned and not yet exited.
InFlight == proc.args # <<>> /\ proc.returncode = -1

\* C12: a run the operator has interrupted ends with the cancellation line,
\* which is not the command-failure line, without the success line, and with
\* exit status 1;
C12_CancellationReported ==
    (Interrupted /\ pc = "exit")
    => /\ Printed(CancelMarker)
       /\ \A i \in DOMAIN out : out[i].text # FailureMarker(0).text
       /\ CancelMarker.text # FailureMarker(0).text
       /\ ~Printed(SuccessMarker)
       /\ exitcode = 1

\* the interruption of a blocking wait (the confirmation read, or the wait
\* for a child) leaves the stage at once, with no answer read, no result
\* returned and no child left running;
C12_AbortsStage ==
    (pc \in {"input", "wait"} /\ exc'.type = "KeyboardInterrupt")
    => /\ pc' = "except"
       /\ response' = response
       /\ result' = result
       /\ ~InFlight'
       /\ calls' = calls

\* and from then on the run enters no stage, spawns nothing, and leaves the
\* dist directory as the interrupted stage left it.
C12_NothingAfter ==
    (Interrupted /\ exc'.type = "KeyboardInterrupt")
    => /\ StageLog' = StageLog
       /\ calls' = calls
       /\ todo' = todo
       /\ dist' = dist
       /\ pc' = "exit"

C12_InterruptionCancels ==
    /\ []C12_CancellationReported
    /\ [][C12_AbortsStage]_vars
    /\ [][C12_NothingAfter]_vars

\* The production upload was interrupted while it ran: the child is gone, the
\* run has ended with the cancellation line.
C12_Witness ==
    /\ pc = "exit"
    /\ Interrupted
    /\ calls = <<PypiCmd>>
    /\ proc = NoProc
    /\ Printed(CancelMarker)
    /\ exitcode = 1

\* ------------------------------------- "all" on a dist with one stale file
\* One run of action all, started on a dist directory that holds exactly one
\* file left by an earlier build.
InitStale ==
    /\ action = "all"
    /\ todo = StagesOf("all")
    /\ pc = "main"
    /\ dist \in { DistDir({<<n, "file">>}) : n \in Names }
    /\ Fresh

NextStale ==
    \/ Dispatch
    \/ Finish
    \/ HandleCalledProcessError
    \/ HandleKeyboardInterrupt
    \/ Uncaught
    \/ CleanBegin
    \/ CleanUnlink
    \/ CleanRmdir
    \/ BuildBegin
    \/ CheckBegin
    \/ RunPrint
    \/ Spawn
    \/ ChildExit
    \/ RunCheck
    \/ RunOutput
    \/ Interrupt

SpecStale == InitStale /\ [][NextStale]_vars

\* The run has ended, both tools could be started, neither exited non-zero,
\* and the operator did not interrupt.
ToolsSucceeded ==
    /\ pc = "exit"
    /\ exc.type \notin {"CalledProcessError", "KeyboardInterrupt"}
    /\ ~(exc = OSError /\ cmd # NoCmd)

\* C13: in a run of all on a dist directory with one stale file, the build
\* stage is entered with the stale file deleted and the directory removed;
\* the build tool is spawned before the validation tool, each at most once;
\* and when both tools succeed the run ends with the build tool and then the
\* validation tool spawned once each, the dist directory recreated with the
\* artifact alone, exit status 0 and the success line.
C13_StaleThenBuildThenCheck ==
    /\ pc = "build_package" => dist = Absent
    /\ Len(StageLog) >= 2 => dist \in {Absent, DistDir({Artifact})}
    /\ IsPrefix(calls, <<BuildCmd, CheckCmd>>)
    /\ ToolsSucceeded
         => /\ StageLog = Plan("all")
            /\ calls = <<BuildCmd, CheckCmd>>
            /\ dist = DistDir({Artifact})
            /\ exitcode = 0
            /\ Printed(SuccessMarker)

C13_Witness ==
    /\ pc = "exit"
    /\ exitcode = 0
    /\ calls = <<BuildCmd, CheckCmd>>
    /\ dist = DistDir({Artifact})
    /\ Printed(SuccessMarker)

\* C14: clean_dist never returns normally while the dist path exists: each
\* return of clean_dist to main leaves the path absent with nothing raised,
\* and the only other ways out of it are a filesystem error or the
\* operator's interruption;
C14_ReturnsOnlyWhenAbsent ==
    (pc \in {"clean_dist", "clean_loop"} /\ pc' \notin {"clean_dist", "clean_loop"})
    => \/ pc' = "main" /\ dist'.kind = "absent" /\ exc' = NoExc
       \/ pc' = "except" /\ exc' \in {OSError, KeyboardInterrupt}

\* so a run of clean that ends in success leaves no dist path behind, and a
\* run of all enters its build stage with no dist path.
C14_NoStaleAfterSuccess ==
    /\ (action = "clean" /\ pc = "exit" /\ exitcode = 0) => dist = Absent
    /\ (action = "all" /\ pc = "build_package") => dist = Absent

C14_CleanNeverLeavesStale ==
    /\ [][C14_ReturnsOnlyWhenAbsent]_vars
    /\ []C14_NoStaleAfterSuccess

\* Clean has failed on a dist directory that holds a subdirectory, which is
\* still there.
C14_Witness ==
    /\ action = "clean"
    /\ pc = "exit"
    /\ CleanFailed
    /\ dist.kind = "dir"
    /\ \E e \in dist.entries : e[2] = "dir"

\* C15: in any single run each external command (the build tool, the
\* validation tool, the staging upload, the production upload) is spawned at
\* most once, the prompt is printed at most once, and nothing is spawned once
\* an exception has been raised.
C15_AtMostOnce ==
    /\ \A c \in Commands : Count(c) <= 1
    /\ Cardinality({i \in DOMAIN out : out[i] = Prompt}) <= 1
    /\ exc # NoExc => Len(calls) <= 1 + (IF action = "all" THEN 1 ELSE 0)

C15_NoRespawn ==
    (exc # NoExc /\ exc' # NoExc) => calls' = calls

C15_NoRetries == []C15_AtMostOnce /\ [][C15_NoRespawn]_vars

\* The staging upload has failed and was spawned once.
C15_Witness ==
    /\ pc = "exit"
    /\ exc = CalledProcessError(1)
    /\ calls = <<TestCmd>>

\* C16: a child is running only while run_command waits for it, so never
\* when a stage is entered, when main moves on, or at the confirmation read;
C16_InFlightOnlyInWait == InFlight => pc = "wait"

\* and a command is spawned only when no child is running, the spawned child
\* being the one and only child then running.
C16_SpawnWhenIdle ==
    (calls' # calls /\ calls' # <<>>)
    => /\ ~InFlight
       /\ proc'.args = calls'[Len(calls')]
       /\ pc' = "wait"

C16_OneInFlight == []C16_InFlightOnlyInWait /\ [][C16_SpawnWhenIdle]_vars

\* The validation tool of all is running, the build tool having exited.
C16_Witness ==
    /\ action = "all"
    /\ InFlight
    /\ proc.args = CheckCmd
    /\ calls = <<BuildCmd, CheckCmd>>

\* ----------------------------------------------------------------- fairness
\* The steps the script takes by itself: straight-line code that runs on
\* without waiting for anything outside the process.
Steps ==
    \/ Dispatch
    \/ Finish
    \/ HandleCalledProcessError
    \/ HandleKeyboardInterrupt
    \/ Uncaught
    \/ CleanBegin
    \/ CleanUnlink
    \/ CleanRmdir
    \/ BuildBegin
    \/ CheckBegin
    \/ TestBegin
    \/ PublishBegin
    \/ RunPrint
    \/ Spawn
    \/ RunCheck
    \/ RunOutput

\* The script keeps running, and every spawned command exits in the end; the
\* answer at the prompt, the interruption and the next run are left to the
\* operator, who may never act.
SpecLive == Init /\ [][Next]_vars /\ WF_vars(Steps) /\ WF_vars(ChildExit)

C18_ExactlyOneMarker ==
    pc = "exit" =>
       /\ Cardinality({i \in DOMAIN out :
                         out[i] = SuccessMarker \/ IsFailureMarker(out[i])}) = 1
       /\ Printed(SuccessMarker)
            => (exitcode = 0 /\ exc = NoExc /\ StageLog = Plan(action))
       /\ exitcode # 0 => \E i \in DOMAIN out : IsFailureMarker(out[i])

====
